---- MODULE Spec2Model ----
(***************************************************************************)
(* Model of the BLE session logic of ayo-glasses-web: the ble slice        *)
(* (src/src/ble.ts), the connectBle listener effect, the ExitStack helpers *)
(* (util: maybe, unwind, ExitStack, withExitStack) and the App button      *)
(* that issues the connect / disconnect requests.                          *)
(*                                                                         *)
(* JavaScript runs one task to completion, then every microtask it left.   *)
(* A continuation that is ready to run (the body of an effect after a      *)
(* settled await, or an unwind loop after a synchronous release) is        *)
(* "runnable"; the events of the environment (a click, the reply of a      *)
(* transport operation, a loss of the link, a battery notification) are    *)
(* delivered only when nothing is runnable.                                *)
(***************************************************************************)
EXTENDS Integers, Sequences, FiniteSets, TLC

\* Bound: how many connectBle effects (connection attempts) a run may start.
MaxAttempts == 2

\* Bound: how many release actions the generic withExitStack harness pushes.
MaxPush == 3

\* Bound: how many times the harness calls the procedure popAll returned.
MaxInvoke == 2

\* Bound: how many times the maybe harness calls maybe.
MaxCalls == 3

Attempts == 1 .. MaxAttempts

\* battery: NaN is the "unknown" sentinel of the slice's initial state.
NaN == -1

\* The one accessory the chooser offers; BluetoothDevice.id of it.
DeviceIds == {"dev1"}

\* What a promise given to maybe fulfils with, and what it rejects with;
\* "undefined" is the value undefined.
Values == {"undefined", "v1", "v2"}
Causes == {"undefined", "e1", "e2"}

\* Raw characteristic values (bytes) the accessory may return.
FirmwareBytes == {<<49, 46, 50>>}
HardwareBytes == {<<50>>}
SerialBytes == {<<65, 49>>}
BatteryBytes == {<<42, 7>>}

VARIABLES
    status, battery, deviceId, firmwareVersion, hardwareVersion, serialNumber,
    att,
    bluetoothSupported, gattConnected, discListeners, valueListeners, notifying,
    clickIgnored,
    es,
    mb

bleFields == <<battery, deviceId, firmwareVersion, hardwareVersion, serialNumber>>
bleState == <<status, battery, deviceId, firmwareVersion, hardwareVersion, serialNumber>>
transport == <<gattConnected, discListeners, valueListeners, notifying>>
vars == <<status, battery, deviceId, firmwareVersion, hardwareVersion, serialNumber,
          att, bluetoothSupported, gattConnected, discListeners, valueListeners,
          notifying, clickIgnored, es, mb>>

\* What every step but an ignored click leaves alone: the platform, the
\* withExitStack harness; clickIgnored tells that the last step was a click the
\* button ignored
Rest ==
    /\ UNCHANGED <<bluetoothSupported, es, mb>>
    /\ clickIgnored' = FALSE

----------------------------------------------------------------------------
\* Pure helpers

Reverse(s) == [k \in 1 .. Len(s) |-> s[Len(s) + 1 - k]]

IsPrefix(p, s) == Len(p) <= Len(s) /\ \A k \in 1 .. Len(p) : p[k] = s[k]

NoDup(s) == \A a, b \in 1 .. Len(s) : a # b => s[a] # s[b]

\* TextDecoder.decode on the byte values the model uses.
Chr(b) ==
    CASE b = 46 -> "."
      [] b = 49 -> "1"
      [] b = 50 -> "2"
      [] b = 65 -> "A"
      [] OTHER -> "?"

RECURSIVE decode(_)
decode(bytes) ==
    IF bytes = <<>> THEN "" ELSE Chr(Head(bytes)) \o decode(Tail(bytes))

\* DataView.getUint8(0)
getUint8(bytes) == bytes[1] % 256

----------------------------------------------------------------------------
\* util: ExitStack and unwind, on a record with the fields
\*   tasks    : this.tasks, the registered release actions, in push order
\*   uw       : the array a running unwind(tasks) iterates (already reversed)
\*   upc      : "none" no unwind started, "run" the loop is about to invoke
\*              Head(uw), "wait" it awaits the promise Head(uw) returned,
\*              "done" the loop has ended, "failed" the promise of unwind
\*              rejected
\*   released : every release action invoked so far, in order of invocation
\*   pushed   : every release action pushed so far, in order of registration

\* ExitStack.push
push(a, task) == [a EXCEPT !.tasks = Append(@, task), !.pushed = Append(@, task)]

\* ExitStack.unwind: unwind(this.tasks) is started and this.tasks replaced by [].
\* unwind reverses the array it is given and iterates it.
ExitStack_unwind(a) ==
    [a EXCEPT !.uw = Reverse(a.tasks),
              !.upc = IF a.tasks = <<>> THEN "done" ELSE "run",
              !.tasks = <<>>]

\* unwind, loop body: task() is called
unwindInvoke(a) == [a EXCEPT !.released = Append(@, Head(a.uw))]

\* unwind, loop: the awaited task() has settled (fulfilled, rejected or thrown:
\* the catch only logs), the loop moves to the next task
unwindAdvance(a) ==
    [a EXCEPT !.uw = Tail(@), !.upc = IF Len(a.uw) = 1 THEN "done" ELSE "run"]

\* Mutant: maybe without its try/catch: a rejection of the promise rejects the
\* promise of maybe
maybe_noCatch(promise) ==
    IF promise.state = "fulfilled"
    THEN [settled |-> "fulfilled", ok |-> TRUE, ret |-> promise.value, err |-> "undefined"]
    ELSE [settled |-> "rejected", ok |-> FALSE, ret |-> "undefined", err |-> promise.value]

\* maybe(promise), for a settled promise [state, value]: the promise of maybe
\* fulfils with {ret, err, ok}
\*   settled : how the promise of maybe settles
\*   ok      : what ok() of the result returns
maybe(promise) ==
    IF promise.state = "fulfilled"
    THEN [settled |-> "fulfilled", ok |-> TRUE, ret |-> promise.value, err |-> "undefined"]
    ELSE [settled |-> "fulfilled", ok |-> FALSE, ret |-> "undefined", err |-> promise.value]

\* Mutant: unwind without its try/catch: the error of task() ends the loop and
\* rejects the promise of unwind
unwindCatch_rethrows(a) == [a EXCEPT !.uw = <<>>, !.upc = "failed"]

\* unwind, catch: task() threw or its promise rejected; the error is logged
\* with console.debug and the loop moves to the next task
unwindCatch(a) == unwindAdvance(a)

\* Mutant: popAll hands the tasks out and leaves them on the stack as well
popAll_keepsTasks(a) ==
    [a EXCEPT !.dt = a.tasks, !.dtReg = a.tasks, !.popped = TRUE]

\* ExitStack.popAll: the array of tasks is captured by the returned procedure
\* and this.tasks replaced by []; no task is invoked
\*   dt     : the captured array, as it stands (unwind reverses it in place)
\*   dtReg  : the captured tasks in order of registration
\*   pushed : starts again from empty, the stack owns none of the captured
popAll(a) ==
    [a EXCEPT !.dt = a.tasks, !.dtReg = a.tasks, !.tasks = <<>>, !.pushed = <<>>,
              !.popped = TRUE]

\* unwind on the captured array, loop body: task() is called with the task at
\* the index of the iteration, read from the array as it stands, and awaited
detachedInvoke(a, r) ==
    IF a.runs[r].k > Len(a.dt)
    THEN [a EXCEPT !.runs[r].upc = "done"]
    ELSE [a EXCEPT !.runs[r].upc = "wait",
                   !.runs[r].rel = Append(@, a.dt[a.runs[r].k])]

\* The procedure popAll returned is called: unwind(tasks) reverses the captured
\* array in place, starts to iterate it by index and runs until its first await
\*   runs : one record per call, k the index of the iteration, upc "wait" or
\*          "done", rel the tasks this call invoked, in order
detachedCall(a) ==
    detachedInvoke([a EXCEPT !.dt = Reverse(@),
                             !.runs = Append(@, [k |-> 1, upc |-> "run", rel |-> <<>>])],
                   Len(a.runs) + 1)

\* unwind on the captured array: the awaited task() has settled (a rejection is
\* caught and logged), the iterator moves to the next index
detachedAdvance(a, r) == detachedInvoke([a EXCEPT !.runs[r].k = @ + 1], r)

\* Mutant: withExitStack without its finally block
withExitStack_noFinally(a) == [a EXCEPT !.pc = "returned"]

\* withExitStack, the finally block: exitStack.unwind() is called and not awaited
withExitStack_finally(a) == ExitStack_unwind([a EXCEPT !.pc = "returned"])

----------------------------------------------------------------------------
\* The ble slice: one definition per reducer

connectBle == status' = "connecting" /\ UNCHANGED bleFields

didFailToConnectBle == status' = "disconnected" /\ UNCHANGED bleFields

didConnectBle == status' = "connected" /\ UNCHANGED bleFields

\* Mutant: disconnectBle goes straight to "disconnected"
disconnectBle_skipsDisconnecting == status' = "disconnected" /\ UNCHANGED bleFields

disconnectBle == status' = "disconnecting" /\ UNCHANGED bleFields

didDisconnectBle ==
    /\ status' = "disconnected"
    /\ battery' = NaN
    /\ deviceId' = ""
    /\ firmwareVersion' = ""
    /\ hardwareVersion' = ""
    /\ serialNumber' = ""

didGetBleDevice(payload) ==
    /\ deviceId' = payload
    /\ UNCHANGED <<status, battery, firmwareVersion, hardwareVersion, serialNumber>>

didReadBatteryLevel(payload) ==
    /\ battery' = payload
    /\ UNCHANGED <<status, deviceId, firmwareVersion, hardwareVersion, serialNumber>>

didReadFirmwareVersion(payload) ==
    /\ firmwareVersion' = payload
    /\ UNCHANGED <<status, battery, deviceId, hardwareVersion, serialNumber>>

didReadHardwareVersion(payload) ==
    /\ hardwareVersion' = payload
    /\ UNCHANGED <<status, battery, deviceId, firmwareVersion, serialNumber>>

didReadSerialNumber(payload) ==
    /\ serialNumber' = payload
    /\ UNCHANGED <<status, battery, deviceId, firmwareVersion, hardwareVersion>>

----------------------------------------------------------------------------
\* One run of the connectBle effect (a connection attempt)
\*   pc        : where the body of the effect stands
\*   cancelled : listenerApi.cancel() was called (the signal is aborted)
\*   aborted   : the pending GATT operation was aborted by a disconnection
\*   fail      : how the body failed, "none" while it has not: "unsupported",
\*               "unavailable", "throw" (getAvailability rejected), "declined"
\*               (NotFoundError), "nogatt", "connect", "network" (NetworkError),
\*               "other" (any other error of a wrapped operation)
\*   alert     : the id of the toast the body created, "none" when none
\*   est       : the body reached listenerApi.take (the session was established)
\*   req       : its take was resolved by a disconnectBle action
\*   ev        : what fired its onDisconnected: "unsolicited" a loss of the
\*               link, "teardown" a call of gatt.disconnect()
\*   acq       : the resources the body has acquired, in order of acquisition

InitAttempt ==
    [pc |-> "idle", tasks |-> <<>>, uw |-> <<>>, upc |-> "none", released |-> <<>>,
     pushed |-> <<>>, cancelled |-> FALSE, aborted |-> FALSE, fail |-> "none", alert |-> "none",
     est |-> FALSE, req |-> FALSE, ev |-> {}, acq |-> <<>>]

\* The awaits of the body on a GATT operation of the device
GattAwaits ==
    {"await_connect", "await_infoService", "await_infoChar", "await_startNotify",
     "await_devInfoService", "await_fwChar", "await_fwRead", "await_hwChar",
     "await_hwRead", "await_glassesService", "await_snChar", "await_snRead"}

\* The positions of the body of the effect, in the order of its text
ProtocolOrder ==
    <<"start", "await_availability", "await_device", "got_device", "await_connect",
      "await_infoService", "await_infoChar", "await_startNotify", "await_devInfoService",
      "await_fwChar", "await_fwRead", "await_hwChar", "await_hwRead",
      "await_glassesService", "await_snChar", "await_snRead", "read_sn", "await_take",
      "take_settled">>

PosOf(pc) == CHOOSE k \in 1 .. Len(ProtocolOrder) : ProtocolOrder[k] = pc

\* Continuations of a body that are ready to run
RunnablePcs == {"start", "got_device", "read_sn", "take_settled"}

Runnable(i) == att[i].pc \in RunnablePcs \/ att[i].upc = "run"

\* The event loop is between tasks: no continuation is left to run
Quiescent == \A i \in Attempts : ~Runnable(i)

\* The body is between its start and its return
InFlight(i) == att[i].pc \notin {"idle", "returned"}

\* The withExitStack harness: one call of withExitStack(func) with a func that
\* pushes release actions and then returns or throws
\*   pc : "idle" not called, "func" func is running, "returned" func returned,
\*        "thrown" func threw (withExitStack logged and rethrew the error)
\*   failed : the release actions that threw or rejected when invoked
InitHarness ==
    [pc |-> "idle", tasks |-> <<>>, uw |-> <<>>, upc |-> "none", released |-> <<>>,
     pushed |-> <<>>, failed |-> {},
     popped |-> FALSE, dt |-> <<>>, dtReg |-> <<>>, runs |-> <<>>]

\* The maybe harness: calls of maybe on promises that settle later
\*   pc      : "idle", "await" maybe awaits its promise, "settled" the promise
\*             has settled and the continuation of maybe is due
\*   promise : the promise of the running call
\*   log     : promise and result of every call that has returned
InitMaybe ==
    [pc |-> "idle", promise |-> [state |-> "pending", value |-> "undefined"], log |-> <<>>]

Init ==
    /\ status = "disconnected"
    /\ battery = NaN
    /\ deviceId = ""
    /\ firmwareVersion = ""
    /\ hardwareVersion = ""
    /\ serialNumber = ""
    /\ att = [i \in Attempts |-> InitAttempt]
    /\ bluetoothSupported \in BOOLEAN
    /\ gattConnected = FALSE
    /\ discListeners = {}
    /\ valueListeners = {}
    /\ notifying = FALSE
    /\ clickIgnored = FALSE
    /\ es = InitHarness
    /\ mb = InitMaybe

----------------------------------------------------------------------------
\* Listener middleware and transport helpers

\* startAppListening({actionCreator: connectBle, effect}): a connectBle action
\* starts a new run of the effect, whatever the state of the store
NextAttempt == CHOOSE i \in Attempts : att[i].pc = "idle" /\ \A j \in Attempts : att[j].pc = "idle" => i <= j

startEffect(A, i) == [A EXCEPT ![i].pc = "start"]

\* listenerApi.take(disconnectBle.match): every pending take is resolved by a
\* disconnectBle action
takeResolve(A) ==
    [j \in Attempts |->
        IF A[j].pc = "await_take"
        THEN [A[j] EXCEPT !.pc = "take_settled", !.req = TRUE]
        ELSE A[j]]

\* listenerApi.cancel(): the signal of this run is aborted; a pending take
\* rejects, any other await of the body is unaffected
cancel(a) ==
    [a EXCEPT !.cancelled = TRUE,
              !.pc = IF a.pc = "await_take" THEN "take_settled" ELSE a.pc]

\* Mutant: onDisconnected runs the release actions of its run itself
onDisconnected_releases(a, cause) ==
    [cancel(a) EXCEPT !.ev = @ \cup {cause},
                      !.uw = Reverse(a.pushed),
                      !.upc = IF a.pushed = <<>> THEN a.upc ELSE "run"]

\* A resource is acquired by the body: addEventListener has returned, or the
\* promise of gatt.connect() or of startNotifications() has fulfilled
acquire(a, res) == [a EXCEPT !.acq = Append(@, res)]

\* onDisconnected, its effect on the run that registered it
onDisconnected(a, cause) == [cancel(a) EXCEPT !.ev = @ \cup {cause}]

\* A disconnection aborts every pending GATT operation (they reject)
abortOps(A) ==
    [j \in Attempts |->
        IF A[j].pc \in GattAwaits THEN [A[j] EXCEPT !.aborted = TRUE] ELSE A[j]]

\* gattserverdisconnected is fired at the device: every registered
\* onDisconnected runs
fireDisconnected(A, cause) ==
    [j \in Attempts |->
        IF j \in discListeners THEN onDisconnected(abortOps(A)[j], cause)
        ELSE abortOps(A)[j]]

\* Mutant: onDisconnected cancels the run and dispatches nothing
DisconnectedDispatch_none == UNCHANGED bleState

\* The connection of the device ends (the link is lost, or gatt.disconnect() is
\* called while connected): the store part (every registered onDisconnected
\* dispatches didDisconnectBle) and the transport part
DisconnectedDispatch ==
    IF discListeners # {} THEN didDisconnectBle ELSE UNCHANGED bleState

DisconnectedTransport ==
    /\ gattConnected' = FALSE
    /\ notifying' = FALSE
    /\ valueListeners' = {}
    /\ UNCHANGED discListeners

\* Mutant: the `return` after a failed step is missing, the body goes on to
\* requestDevice
failReturn_fallsThrough(a, class, toast) ==
    [a EXCEPT !.fail = class, !.alert = toast, !.aborted = FALSE, !.pc = "await_device"]

\* a `return` of the body after a failed step: the toast, then the finally
\* block of withExitStack
failReturn(a, class, toast) ==
    withExitStack_finally([a EXCEPT !.fail = class, !.alert = toast, !.aborted = FALSE])

\* Mutant: a failed GATT step creates the unexpected-error toast whatever the
\* error
stepToast_alwaysAlerts(kind) == "unexpected-error"

\* the toast of a failed GATT step: none for a NetworkError
stepToast(kind) == IF kind = "network" THEN "none" ELSE "unexpected-error"

\* the next GATT operation is called (right after the previous one succeeded)
callGatt(a, next) == [a EXCEPT !.pc = next, !.aborted = FALSE]

\* Outcomes of a pending GATT operation
CanSucceed(i) == ~att[i].aborted
FailKinds(i) == IF att[i].aborted THEN {"network"} ELSE {"network", "other"}

----------------------------------------------------------------------------
\* App: the button

onClick_connect ==
    /\ status = "disconnected"
    /\ \E i \in Attempts : att[i].pc = "idle"
    /\ connectBle
    /\ att' = startEffect(att, NextAttempt)
    /\ UNCHANGED transport /\ Rest

onClick_disconnect ==
    /\ status = "connected"
    /\ disconnectBle
    /\ att' = takeResolve(att)
    /\ UNCHANGED transport /\ Rest

\* Mutant: the button dispatches disconnectBle in every other status
onClick_default_dispatches ==
    /\ status \notin {"disconnected", "connected"}
    /\ disconnectBle
    /\ att' = takeResolve(att)
    /\ UNCHANGED transport /\ Rest

onClick_default ==
    /\ status \notin {"disconnected", "connected"}
    /\ clickIgnored' = TRUE
    /\ UNCHANGED <<bleState, att, bluetoothSupported, transport, es, mb>>

onClick ==
    /\ Quiescent
    /\ \/ onClick_connect
       \/ onClick_disconnect
       \/ onClick_default

----------------------------------------------------------------------------
\* The connectBle effect, step by step

\* navigator.bluetooth === undefined, else getAvailability() is called
Start(i) ==
    /\ att[i].pc = "start"
    /\ IF ~bluetoothSupported
       THEN /\ didFailToConnectBle
            /\ att' = [att EXCEPT ![i] = failReturn(@, "unsupported", "no-web-ble")]
       ELSE /\ att' = [att EXCEPT ![i].pc = "await_availability"]
            /\ UNCHANGED bleState
    /\ UNCHANGED transport /\ Rest

\* await navigator.bluetooth.getAvailability(): true, false, or it rejects and
\* the error leaves the body (withExitStack logs and rethrows it)
AvailabilityReply(i) ==
    /\ Quiescent
    /\ att[i].pc = "await_availability"
    /\ \/ /\ att' = [att EXCEPT ![i].pc = "await_device"]
          /\ UNCHANGED bleState
       \/ /\ didFailToConnectBle
          /\ att' = [att EXCEPT ![i] = failReturn(@, "unavailable", "bluetooth-unavailable")]
       \/ /\ att' = [att EXCEPT ![i] = failReturn(@, "throw", "none")]
          /\ UNCHANGED bleState
    /\ UNCHANGED transport /\ Rest

\* await maybe(requestDevice(...)): a device, NotFoundError, or another error
DeviceReply(i) ==
    /\ Quiescent
    /\ att[i].pc = "await_device"
    /\ \/ \E id \in DeviceIds :
             /\ didGetBleDevice(id)
             /\ att' = [att EXCEPT ![i].pc = "got_device"]
       \/ /\ didFailToConnectBle
          /\ \/ att' = [att EXCEPT ![i] = failReturn(@, "declined", "none")]
             \/ att' = [att EXCEPT ![i] = failReturn(@, "other", "unexpected-error")]
    /\ UNCHANGED transport /\ Rest

\* onDisconnected is registered and its removal pushed; device.gatt undefined
\* fails the attempt, else gatt.connect() is called
GotDevice(i) ==
    /\ att[i].pc = "got_device"
    /\ discListeners' = discListeners \cup {i}
    /\ \/ /\ didFailToConnectBle
          /\ att' = [att EXCEPT ![i] =
                        failReturn(push(acquire(@, "discListener"), "rmDiscListener"),
                                   "nogatt", "unexpected-error")]
       \/ /\ att' = [att EXCEPT ![i] =
                        callGatt(push(acquire(@, "discListener"), "rmDiscListener"),
                                 "await_connect")]
          /\ UNCHANGED bleState
    /\ UNCHANGED <<gattConnected, valueListeners, notifying>> /\ Rest

\* Mutant: the failure branch of a GATT step only logs and the body goes on to
\* its next step
StepFails_goesOn(i) ==
    /\ att' = [att EXCEPT ![i] = callGatt(@, ProtocolOrder[PosOf(att[i].pc) + 1])]
    /\ UNCHANGED <<bleState, transport>> /\ Rest

\* a failed GATT step other than connect: didFailToConnectBle, toast, return
StepFails(i) ==
    \E kind \in FailKinds(i) :
        /\ didFailToConnectBle
        /\ att' = [att EXCEPT ![i] = failReturn(@, kind, stepToast(kind))]
        /\ UNCHANGED transport /\ Rest

\* a GATT step that only resolves a handle: on success the next one is called
StepResolves(i, next) ==
    /\ CanSucceed(i)
    /\ att' = [att EXCEPT ![i] = callGatt(@, next)]
    /\ UNCHANGED <<bleState, transport>> /\ Rest

\* await maybe(device.gatt.connect())
ConnectReply(i) ==
    /\ Quiescent
    /\ att[i].pc = "await_connect"
    /\ \/ /\ didFailToConnectBle
          /\ att' = [att EXCEPT ![i] = failReturn(@, "connect", "gatt-connection-failed")]
          /\ UNCHANGED transport /\ Rest
       \/ /\ CanSucceed(i)
          /\ gattConnected' = TRUE
          /\ att' = [att EXCEPT ![i] =
                        callGatt(push(acquire(@, "gattConnection"), "gattDisconnect"),
                                 "await_infoService")]
          /\ UNCHANGED <<bleState, discListeners, valueListeners, notifying>> /\ Rest

\* await maybe(getPrimaryService(glassesInfoServiceUuid))
InfoServiceReply(i) ==
    /\ Quiescent
    /\ att[i].pc = "await_infoService"
    /\ \/ StepFails(i)
       \/ StepResolves(i, "await_infoChar")

\* await maybe(getCharacteristic(glassesInfoCharacteristicUuid)); on success
\* onCharacteristicValueChanged is registered and its removal pushed
InfoCharReply(i) ==
    /\ Quiescent
    /\ att[i].pc = "await_infoChar"
    /\ \/ StepFails(i)
       \/ /\ CanSucceed(i)
          /\ valueListeners' = valueListeners \cup {i}
          /\ att' = [att EXCEPT ![i] =
                        callGatt(push(acquire(@, "valueListener"), "rmValueListener"),
                                 "await_startNotify")]
          /\ UNCHANGED <<bleState, gattConnected, discListeners, notifying>> /\ Rest

\* Mutant: stopNotifications is not pushed after startNotifications() succeeded
StartNotifyReply_noPush(i) ==
    /\ Quiescent
    /\ att[i].pc = "await_startNotify"
    /\ \/ StepFails(i)
       \/ /\ CanSucceed(i)
          /\ notifying' = TRUE
          /\ att' = [att EXCEPT ![i] =
                        callGatt(acquire(@, "notifications"), "await_devInfoService")]
          /\ UNCHANGED <<bleState, gattConnected, discListeners, valueListeners>> /\ Rest

\* await maybe(startNotifications()); on success stopNotifications is pushed
StartNotifyReply(i) ==
    /\ Quiescent
    /\ att[i].pc = "await_startNotify"
    /\ \/ StepFails(i)
       \/ /\ CanSucceed(i)
          /\ notifying' = TRUE
          /\ att' = [att EXCEPT ![i] =
                        callGatt(push(acquire(@, "notifications"), "stopNotifications"),
                                 "await_devInfoService")]
          /\ UNCHANGED <<bleState, gattConnected, discListeners, valueListeners>> /\ Rest

\* await maybe(getPrimaryService(deviceInfoServiceUuid))
DevInfoServiceReply(i) ==
    /\ Quiescent
    /\ att[i].pc = "await_devInfoService"
    /\ \/ StepFails(i)
       \/ StepResolves(i, "await_fwChar")

\* await maybe(getCharacteristic(firmwareRevisionCharacteristicUuid))
FwCharReply(i) ==
    /\ Quiescent
    /\ att[i].pc = "await_fwChar"
    /\ \/ StepFails(i)
       \/ StepResolves(i, "await_fwRead")

\* await maybe(readValue()), decode, didReadFirmwareVersion
FwReadReply(i) ==
    /\ Quiescent
    /\ att[i].pc = "await_fwRead"
    /\ \/ StepFails(i)
       \/ /\ CanSucceed(i)
          /\ \E bytes \in FirmwareBytes : didReadFirmwareVersion(decode(bytes))
          /\ att' = [att EXCEPT ![i] = callGatt(@, "await_hwChar")]
          /\ UNCHANGED transport /\ Rest

\* await maybe(getCharacteristic(hardwareRevisionCharacteristicUuid))
HwCharReply(i) ==
    /\ Quiescent
    /\ att[i].pc = "await_hwChar"
    /\ \/ StepFails(i)
       \/ StepResolves(i, "await_hwRead")

\* await maybe(readValue()), decode, didReadHardwareVersion
HwReadReply(i) ==
    /\ Quiescent
    /\ att[i].pc = "await_hwRead"
    /\ \/ StepFails(i)
       \/ /\ CanSucceed(i)
          /\ \E bytes \in HardwareBytes : didReadHardwareVersion(decode(bytes))
          /\ att' = [att EXCEPT ![i] = callGatt(@, "await_glassesService")]
          /\ UNCHANGED transport /\ Rest

\* await maybe(device.gatt.getPrimaryService(glassesServiceUuid))
GlassesServiceReply(i) ==
    /\ Quiescent
    /\ att[i].pc = "await_glassesService"
    /\ \/ StepFails(i)
       \/ StepResolves(i, "await_snChar")

\* await maybe(getCharacteristic(serialNumberCharacteristicUuid))
SnCharReply(i) ==
    /\ Quiescent
    /\ att[i].pc = "await_snChar"
    /\ \/ StepFails(i)
       \/ StepResolves(i, "await_snRead")

\* await maybe(readValue()), decode, didReadSerialNumber
SnReadReply(i) ==
    /\ Quiescent
    /\ att[i].pc = "await_snRead"
    /\ \/ StepFails(i)
       \/ /\ CanSucceed(i)
          /\ \E bytes \in SerialBytes : didReadSerialNumber(decode(bytes))
          /\ att' = [att EXCEPT ![i].pc = "read_sn"]
          /\ UNCHANGED transport /\ Rest

\* Mutant: the body empties its stack before it waits for the disconnect
DidConnect_detaches(i) ==
    /\ att[i].pc = "read_sn"
    /\ didConnectBle
    /\ att' = [att EXCEPT ![i].pc = IF att[i].cancelled THEN "take_settled" ELSE "await_take",
                          ![i].est = TRUE,
                          ![i].tasks = <<>>]
    /\ UNCHANGED transport /\ Rest

\* didConnectBle, then listenerApi.take(disconnectBle.match): it rejects at
\* once when the run is already cancelled
DidConnect(i) ==
    /\ att[i].pc = "read_sn"
    /\ didConnectBle
    /\ att' = [att EXCEPT ![i].pc = IF att[i].cancelled THEN "take_settled" ELSE "await_take",
                          ![i].est = TRUE]
    /\ UNCHANGED transport /\ Rest

\* the take has settled (resolved or rejected: maybe(...) only logs); the body
\* returns and withExitStack unwinds the stack
TakeSettled(i) ==
    /\ att[i].pc = "take_settled"
    /\ att' = [att EXCEPT ![i] = withExitStack_finally(@)]
    /\ UNCHANGED <<bleState, transport>> /\ Rest

----------------------------------------------------------------------------
\* The release actions, as the loop of unwind invokes them

\* () => device.removeEventListener("gattserverdisconnected", onDisconnected)
Release_rmDiscListener(i) ==
    /\ att[i].upc = "run"
    /\ Head(att[i].uw) = "rmDiscListener"
    /\ discListeners' = discListeners \ {i}
    /\ att' = [att EXCEPT ![i] = unwindAdvance(unwindInvoke(@))]
    /\ UNCHANGED <<bleState, gattConnected, valueListeners, notifying>> /\ Rest

\* () => serverResult.ret.disconnect(): pending operations are aborted; when
\* the device is connected the connection ends and gattserverdisconnected is
\* fired, inside the call
Release_gattDisconnect(i) ==
    /\ att[i].upc = "run"
    /\ Head(att[i].uw) = "gattDisconnect"
    /\ IF gattConnected
       THEN /\ DisconnectedDispatch
            /\ DisconnectedTransport
            /\ att' = [fireDisconnected(att, "teardown") EXCEPT
                          ![i] = unwindAdvance(unwindInvoke(@))]
       ELSE /\ att' = [abortOps(att) EXCEPT ![i] = unwindAdvance(unwindInvoke(@))]
            /\ UNCHANGED <<bleState, transport>>
    /\ Rest

\* () => removeEventListener("characteristicvaluechanged", ...)
Release_rmValueListener(i) ==
    /\ att[i].upc = "run"
    /\ Head(att[i].uw) = "rmValueListener"
    /\ valueListeners' = valueListeners \ {i}
    /\ att' = [att EXCEPT ![i] = unwindAdvance(unwindInvoke(@))]
    /\ UNCHANGED <<bleState, gattConnected, discListeners, notifying>> /\ Rest

\* () => stopNotifications(): a promise, which the loop awaits
Release_stopNotifications(i) ==
    /\ att[i].upc = "run"
    /\ Head(att[i].uw) = "stopNotifications"
    /\ att' = [att EXCEPT ![i] = [unwindInvoke(@) EXCEPT !.upc = "wait"]]
    /\ UNCHANGED <<bleState, transport>> /\ Rest

\* the promise of stopNotifications settles; it fulfils only on the connection
\* the notifications were started on
StopNotificationsSettle(i) ==
    /\ Quiescent
    /\ att[i].upc = "wait"
    /\ \/ /\ gattConnected /\ att[i].ev = {}
          /\ notifying' = FALSE
          /\ att' = [att EXCEPT ![i] = unwindAdvance(@)]
       \/ /\ UNCHANGED notifying
          /\ att' = [att EXCEPT ![i] = unwindCatch(@)]
    /\ UNCHANGED <<bleState, gattConnected, discListeners, valueListeners>> /\ Rest

----------------------------------------------------------------------------
\* Events of the transport

\* the link to the connected device is lost: gattserverdisconnected is fired
LinkLoss ==
    /\ Quiescent
    /\ gattConnected
    /\ DisconnectedDispatch
    /\ DisconnectedTransport
    /\ att' = fireDisconnected(att, "unsolicited")
    /\ Rest

\* characteristicvaluechanged: onCharacteristicValueChanged reads byte 0
BatteryNotify ==
    /\ Quiescent
    /\ gattConnected /\ notifying /\ valueListeners # {}
    /\ \E value \in BatteryBytes : didReadBatteryLevel(getUint8(value))
    /\ UNCHANGED <<att, transport>> /\ Rest

----------------------------------------------------------------------------
Next ==
    \/ onClick
    \/ \E i \in Attempts : Start(i)
    \/ \E i \in Attempts : AvailabilityReply(i)
    \/ \E i \in Attempts : DeviceReply(i)
    \/ \E i \in Attempts : GotDevice(i)
    \/ \E i \in Attempts : ConnectReply(i)
    \/ \E i \in Attempts : InfoServiceReply(i)
    \/ \E i \in Attempts : InfoCharReply(i)
    \/ \E i \in Attempts : StartNotifyReply(i)
    \/ \E i \in Attempts : DevInfoServiceReply(i)
    \/ \E i \in Attempts : FwCharReply(i)
    \/ \E i \in Attempts : FwReadReply(i)
    \/ \E i \in Attempts : HwCharReply(i)
    \/ \E i \in Attempts : HwReadReply(i)
    \/ \E i \in Attempts : GlassesServiceReply(i)
    \/ \E i \in Attempts : SnCharReply(i)
    \/ \E i \in Attempts : SnReadReply(i)
    \/ \E i \in Attempts : DidConnect(i)
    \/ \E i \in Attempts : TakeSettled(i)
    \/ \E i \in Attempts : Release_rmDiscListener(i)
    \/ \E i \in Attempts : Release_gattDisconnect(i)
    \/ \E i \in Attempts : Release_rmValueListener(i)
    \/ \E i \in Attempts : Release_stopNotifications(i)
    \/ \E i \in Attempts : StopNotificationsSettle(i)
    \/ LinkLoss
    \/ BatteryNotify

Spec == Init /\ [][Next]_vars

\* The steps of run i that wait for nothing but the event loop (the
\* continuations of its body that are ready, the loop of its unwind), and the
\* settling of the promise of stopNotifications
Progress(i) ==
    \/ Start(i)
    \/ GotDevice(i)
    \/ DidConnect(i)
    \/ TakeSettled(i)
    \/ Release_rmDiscListener(i)
    \/ Release_gattDisconnect(i)
    \/ Release_rmValueListener(i)
    \/ Release_stopNotifications(i)
    \/ StopNotificationsSettle(i)

\* The same steps, where a continuation that is ready is run by the event loop
\* and every promise a release action returned settles
SpecFair == Spec /\ \A i \in Attempts : WF_vars(Progress(i))

----------------------------------------------------------------------------
\* withExitStack on its own: func pushes up to MaxPush release actions, each
\* synchronous or returning a promise, and returns or throws

TaskKinds == {"sync", "async"}

HarnessFrame == UNCHANGED <<bleState, att, bluetoothSupported, transport, clickIgnored, mb>>

\* withExitStack(func): new ExitStack(), func(exitStack) is called
HarnessCall ==
    /\ es.pc = "idle"
    /\ es' = [es EXCEPT !.pc = "func"]
    /\ HarnessFrame

\* func: stack.push(task)
HarnessPush ==
    /\ es.pc = "func"
    /\ Len(es.pushed) + Len(es.dtReg) < MaxPush
    /\ \E kind \in TaskKinds :
          es' = push(es, [id |-> Len(es.pushed) + Len(es.dtReg) + 1, kind |-> kind])
    /\ HarnessFrame

\* func: stack.popAll(), once
HarnessPopAll ==
    /\ es.pc = "func"
    /\ ~es.popped
    /\ es' = popAll(es)
    /\ HarnessFrame

\* the procedure popAll returned is called, by func or by who func gave it to
HarnessDetachedCall ==
    /\ es.popped
    /\ Len(es.runs) < MaxInvoke
    /\ es' = detachedCall(es)
    /\ HarnessFrame

\* a call of the procedure: what it awaits has settled (a synchronous task
\* returned or threw, a promise fulfilled or rejected), the loop goes on
HarnessDetachedSettle(r) ==
    /\ es.runs[r].upc = "wait"
    /\ es' = detachedAdvance(es, r)
    /\ HarnessFrame

\* func returns: finally
HarnessReturn ==
    /\ es.pc = "func"
    /\ es' = withExitStack_finally(es)
    /\ HarnessFrame

\* func throws: catch (log, rethrow), finally
HarnessThrow ==
    /\ es.pc = "func"
    /\ es' = [withExitStack_finally(es) EXCEPT !.pc = "thrown"]
    /\ HarnessFrame

\* unwind: a synchronous task is called; it returns or throws (caught, logged)
HarnessInvokeSync ==
    /\ es.upc = "run"
    /\ Head(es.uw).kind = "sync"
    /\ \/ es' = unwindAdvance(unwindInvoke(es))
       \/ es' = [unwindCatch(unwindInvoke(es)) EXCEPT !.failed = @ \cup {Head(es.uw).id}]
    /\ HarnessFrame

\* unwind: a task returning a promise is called and awaited
HarnessInvokeAsync ==
    /\ es.upc = "run"
    /\ Head(es.uw).kind = "async"
    /\ es' = [unwindInvoke(es) EXCEPT !.upc = "wait"]
    /\ HarnessFrame

\* unwind: the awaited promise fulfils or rejects (caught, logged)
HarnessSettle ==
    /\ es.upc = "wait"
    /\ \/ es' = unwindAdvance(es)
       \/ es' = [unwindCatch(es) EXCEPT !.failed = @ \cup {Head(es.uw).id}]
    /\ HarnessFrame

NextStack ==
    \/ HarnessCall
    \/ HarnessPush
    \/ HarnessReturn
    \/ HarnessThrow
    \/ HarnessInvokeSync
    \/ HarnessInvokeAsync
    \/ HarnessSettle
    \/ HarnessPopAll
    \/ HarnessDetachedCall
    \/ \E r \in 1 .. Len(es.runs) : HarnessDetachedSettle(r)

SpecStack == Init /\ [][NextStack]_vars

----------------------------------------------------------------------------
\* maybe on its own: up to MaxCalls calls, each on a promise that fulfils with
\* one of Values or rejects with one of Causes

MaybeFrame ==
    UNCHANGED <<bleState, att, bluetoothSupported, transport, clickIgnored, es>>

\* maybe(promise) is called and awaits the promise
MaybeCall ==
    /\ mb.pc = "idle"
    /\ Len(mb.log) < MaxCalls
    /\ mb' = [mb EXCEPT !.pc = "await"]
    /\ MaybeFrame

\* the promise fulfils
MaybeFulfil ==
    /\ mb.pc = "await"
    /\ \E v \in Values :
          mb' = [mb EXCEPT !.pc = "settled", !.promise = [state |-> "fulfilled", value |-> v]]
    /\ MaybeFrame

\* the promise rejects
MaybeReject ==
    /\ mb.pc = "await"
    /\ \E e \in Causes :
          mb' = [mb EXCEPT !.pc = "settled", !.promise = [state |-> "rejected", value |-> e]]
    /\ MaybeFrame

\* maybe returns its result
MaybeReturn ==
    /\ mb.pc = "settled"
    /\ mb' = [mb EXCEPT !.pc = "idle",
                        !.promise = InitMaybe.promise,
                        !.log = Append(@, [promise |-> mb.promise,
                                           result |-> maybe(mb.promise)])]
    /\ MaybeFrame

NextMaybe ==
    \/ MaybeCall
    \/ MaybeFulfil
    \/ MaybeReject
    \/ MaybeReturn

SpecMaybe == Init /\ [][NextMaybe]_vars

----------------------------------------------------------------------------
\* Properties

Cleared ==
    /\ battery = NaN
    /\ deviceId = ""
    /\ firmwareVersion = ""
    /\ hardwareVersion = ""
    /\ serialNumber = ""

\* The run has returned and its unwind has ended
Finished(i) == att[i].pc = "returned" /\ att[i].upc = "done"

\* The body of run i, or its unwind, takes this step
ActsOf(i) ==
    \/ att'[i].pc # att[i].pc
    \/ att'[i].upc # att[i].upc
    \/ att'[i].released # att[i].released

\* C1: an attempt in which a step fails ends with status Disconnected, and the
\* release actions pushed before the failing step are each invoked once, in
\* reverse order of registration.
C1_FailedAttemptEndsDisconnected ==
    [][\A i \in Attempts :
          /\ (att[i].fail = "none" /\ att'[i].fail # "none") => status' = "disconnected"
          /\ (att'[i].fail # "none" /\ att'[i].upc = "done")
                => att'[i].released = Reverse(att'[i].pushed)]_vars

\* No step of any run has failed and the link was never lost
Clean == \A i \in Attempts : att[i].fail = "none" /\ "unsolicited" \notin att[i].ev

\* The status a run of a clean behaviour stands for
CleanStatus(i) ==
    CASE att[i].pc \in {"start", "await_availability", "await_device", "got_device", "read_sn"}
            \cup GattAwaits -> "connecting"
      [] att[i].pc = "await_take" -> "connected"
      [] att[i].pc = "take_settled" -> "disconnecting"
      [] att[i].pc = "returned" /\ "gattDisconnect" \in {att[i].uw[k] : k \in 1 .. Len(att[i].uw)}
            -> "disconnecting"
      [] OTHER -> "disconnected"

CycleEdges ==
    {<<"disconnected", "connecting">>, <<"connecting", "connected">>,
     <<"connected", "disconnecting">>, <<"disconnecting", "disconnected">>}

\* C2: while every step succeeds and the only disconnection is the requested
\* one, status moves only Disconnected -> Connecting -> Connected ->
\* Disconnecting -> Disconnected, each change at its place in the run.
C2_CleanRunStatusCycle ==
    [][Clean' =>
          /\ status' = status \/ <<status, status'>> \in CycleEdges
          /\ \A i \in Attempts : (att'[i].pc # "idle" /\ \A j \in Attempts : j > i => att'[j].pc = "idle")
                => status' = CleanStatus(i)']_vars

C2_Witness ==
    /\ Clean
    /\ Finished(1) /\ att[1].req /\ Len(att[1].released) = 4
    /\ status = "disconnected"

\* C3: after the transport reports an unsolicited disconnect to a run, status
\* is Disconnected with every field at its sentinel, and no later step of that
\* run changes status or a field.
C3_UnsolicitedDisconnectIsFinal ==
    [][\A i \in Attempts :
          /\ ("unsolicited" \in att'[i].ev /\ "unsolicited" \notin att[i].ev)
                => (status' = "disconnected" /\ Cleared')
          /\ ("unsolicited" \in att[i].ev /\ ActsOf(i)) => UNCHANGED bleState]_vars

\* C4: whenever status is Disconnected, deviceId, battery, firmwareVersion,
\* hardwareVersion and serialNumber hold their sentinels.
C4_DisconnectedIsCleared == status = "disconnected" => Cleared

AllowedEdges ==
    {<<"disconnected", "connecting">>, <<"connecting", "connected">>,
     <<"connecting", "disconnected">>, <<"connected", "disconnecting">>,
     <<"connected", "disconnected">>, <<"disconnecting", "disconnected">>}

\* C5: status changes only along the edges of the session state machine.
C5_StatusEdges ==
    [][status' = status \/ <<status, status'>> \in AllowedEdges]_vars

\* C6: a run of the protocol is started only while status is Disconnected, a
\* click in any other status starts none, and at most one run is in flight.
C6_SingleAttemptInFlight ==
    [][/\ \A i \in Attempts :
             (att[i].pc = "idle" /\ att'[i].pc # "idle") => status = "disconnected"
       /\ Cardinality({i \in Attempts : InFlight(i)'}) <= 1]_vars

C8_ReleasedExactlyOnce ==
    \A i \in Attempts :
        att[i].est =>
            /\ NoDup(att[i].released)
            /\ IsPrefix(att[i].released, Reverse(att[i].pushed))
            /\ Finished(i) => att[i].released = Reverse(att[i].pushed)

C8_Witness ==
    \E i \in Attempts :
        /\ att[i].est /\ att[i].req /\ "unsolicited" \in att[i].ev
        /\ Finished(i) /\ Len(att[i].released) = 4

TeardownOrder == <<"stopNotifications", "rmValueListener", "gattDisconnect", "rmDiscListener">>

\* C9: the teardown of an established session invokes stop notifications,
\* remove value listener, GATT disconnect, remove disconnect listener, in this
\* order, and at the step that ends the teardown status is Disconnected with
\* battery and descriptors cleared.
C9_TeardownOrder ==
    [][\A i \in Attempts :
          att'[i].est =>
              /\ IsPrefix(att'[i].released, TeardownOrder)
              /\ (Finished(i)' /\ ~Finished(i)) =>
                    /\ att'[i].released = TeardownOrder
                    /\ status' = "disconnected"
                    /\ Cleared']_vars

\* C10: withExitStack runs func on an empty stack; after func has returned or
\* thrown the stack is empty, nothing was released before, and the release
\* actions pushed are invoked once each in reverse order of registration.
C10_WithExitStackUnwinds ==
    /\ es.pc = "idle" => es.tasks = <<>>
    /\ es.pc \in {"idle", "func"} => (es.released = <<>> /\ es.upc = "none")
    /\ es.pc \in {"returned", "thrown"} =>
          /\ es.tasks = <<>>
          /\ es.upc # "none"
          /\ IsPrefix(es.released, Reverse(es.pushed))
          /\ es.upc = "done" => es.released = Reverse(es.pushed)

C10_Witness ==
    /\ es.pc = "thrown" /\ es.upc = "done"
    /\ Len(es.released) >= 2
    /\ \E k \in 1 .. Len(es.pushed) : es.pushed[k].kind = "async"

\* C11: a release action that throws or rejects during an unwind does not end
\* it: the promise of unwind never rejects, the actions are invoked in reverse
\* order of registration whatever failed, and all of them once the loop ends.
C11_FailingReleaseDoesNotAbort ==
    /\ es.upc # "failed"
    /\ IsPrefix(es.released, Reverse(es.pushed))
    /\ es.failed \subseteq {es.released[k].id : k \in 1 .. Len(es.released)}
    /\ (es.upc = "done" /\ es.failed # {}) => es.released = Reverse(es.pushed)

C11_Witness ==
    /\ es.upc = "done"
    /\ Len(es.released) = MaxPush
    /\ es.released[1].id \in es.failed
    /\ \E k \in 1 .. Len(es.released) :
          es.released[k].kind = "async" /\ es.released[k].id \in es.failed
    /\ \E k \in 1 .. Len(es.released) :
          es.released[k].kind = "sync" /\ es.released[k].id \in es.failed

\* The tasks of a sequence, as a set
Range(q) == {q[k] : k \in 1 .. Len(q)}

\* C12: popAll empties the stack and invokes nothing; the unwind of the stack
\* itself invokes none of the tasks popAll took; the procedure popAll returned,
\* called once, invokes exactly those tasks in reverse order of registration.
C12_PopAllDetaches ==
    [][/\ (es'.popped /\ ~es.popped) =>
             /\ es'.tasks = <<>>
             /\ es'.dtReg = es.tasks
             /\ es'.released = es.released
             /\ es'.runs = <<>>
       /\ es'.popped => Range(es'.released) \cap Range(es'.dtReg) = {}
       /\ Len(es'.runs) = 1 =>
             /\ IsPrefix(es'.runs[1].rel, Reverse(es'.dtReg))
             /\ es'.runs[1].upc = "done" => es'.runs[1].rel = Reverse(es'.dtReg)]_vars

C12_Witness ==
    /\ es.popped /\ Len(es.dtReg) >= 2
    /\ Len(es.runs) = 1 /\ es.runs[1].upc = "done"
    /\ es.pc = "returned" /\ es.upc = "done" /\ es.released # <<>>

\* C13: the promise of maybe always fulfils; for a promise fulfilled with v the
\* result has ok() true, ret = v and err undefined; for a promise rejected
\* with e it has ok() false, ret undefined and err = e.
C13_MaybeCaptures ==
    \A k \in 1 .. Len(mb.log) :
        LET in == mb.log[k].promise
            out == mb.log[k].result
        IN  /\ out.settled = "fulfilled"
            /\ in.state = "fulfilled" =>
                  (out.ok /\ out.ret = in.value /\ out.err = "undefined")
            /\ in.state = "rejected" =>
                  (~out.ok /\ out.ret = "undefined" /\ out.err = in.value)

C13_Witness ==
    /\ \E k \in 1 .. Len(mb.log) :
          mb.log[k].promise = [state |-> "rejected", value |-> "e1"]
    /\ \E k \in 1 .. Len(mb.log) :
          mb.log[k].promise = [state |-> "fulfilled", value |-> "v2"]
    /\ \E k \in 1 .. Len(mb.log) :
          mb.log[k].promise = [state |-> "fulfilled", value |-> "undefined"]

\* C14: no failure of a step leaves the body of the effect as an error: when
\* the body ends it has returned normally, the unwind of its stack has been
\* started, and after a failed step status is not Connecting.
C14_NoErrorEscapes ==
    [][\A i \in Attempts :
          (att'[i].pc = "returned" /\ att[i].pc # "returned") =>
              /\ att'[i].fail # "throw"
              /\ att'[i].upc # "none"
              /\ att'[i].fail # "none" => status' # "connecting"]_vars

\* A step of run i fails at this step of the model
FailsNow(i) == att[i].fail = "none" /\ att'[i].fail # "none"

\* C15 as stated: a failure of the classes unsupported, unavailable, declined
\* and unreachable (a failed GATT connect included) sets status Disconnected
\* and creates no toast; a toast is created exactly for an unexpected failure.
C15_AlertOnlyIfUnexpected ==
    [][\A i \in Attempts :
          FailsNow(i) =>
              /\ att'[i].fail \in {"unsupported", "unavailable", "declined", "connect", "network"}
                    => (status' = "disconnected" /\ att'[i].alert = "none")
              /\ att'[i].fail # "throw" =>
                    (att'[i].alert # "none" <=> att'[i].fail \in {"nogatt", "other"})]_vars

\* C15 as amended: unsupported, unavailable and a failed GATT connect create
\* each their own toast; NotFoundError of the chooser and NetworkError of a
\* later step create none; the unexpected-error toast is created exactly when
\* the body classifies the failure as unexpected; each of these sets status
\* Disconnected; a rejected getAvailability() creates none and leaves status.
C15_AlertPerClass ==
    [][\A i \in Attempts :
          FailsNow(i) =>
              /\ att'[i].fail = "unsupported" <=> att'[i].alert = "no-web-ble"
              /\ att'[i].fail = "unavailable" <=> att'[i].alert = "bluetooth-unavailable"
              /\ att'[i].fail = "connect" <=> att'[i].alert = "gatt-connection-failed"
              /\ att'[i].fail \in {"nogatt", "other"} <=> att'[i].alert = "unexpected-error"
              /\ att'[i].fail \in {"declined", "network", "throw"} <=> att'[i].alert = "none"
              /\ att'[i].fail # "throw" => status' = "disconnected"
              /\ att'[i].fail = "throw" => status' = status]_vars

C15_Witness ==
    /\ att[1].fail = "connect" /\ att[1].alert = "gatt-connection-failed"
    /\ att[2].fail = "network" /\ att[2].alert = "none"
    /\ status = "disconnected"

\* The operations of run i that are pending: the one its body awaits and the
\* one its unwind awaits
PendingOps(i) ==
    (IF att[i].pc \in {"await_availability", "await_device"} \cup GattAwaits THEN 1 ELSE 0)
    + (IF att[i].upc = "wait" THEN 1 ELSE 0)

\* C16: the body of a run moves through its steps in the order of the
\* protocol, to the next step only while no step has failed, with at most one
\* operation pending; a run that found Bluetooth unsupported or unavailable
\* sets status Disconnected before it ever asked for a device and has pushed
\* and released nothing; a run that has returned issues nothing more.
C16_ProtocolOrder ==
    [][\A i \in Attempts :
          /\ PendingOps(i)' <= 1
          /\ att[i].pc = "returned" => att'[i].pc = "returned"
          /\ (att'[i].pc # att[i].pc /\ att[i].pc # "idle" /\ att'[i].pc # "returned") =>
                /\ att'[i].fail = "none"
                /\ \/ PosOf(att'[i].pc) = PosOf(att[i].pc) + 1
                   \/ att[i].pc = "read_sn" /\ att'[i].pc = "take_settled"
          /\ (att[i].pc = "idle" /\ att'[i].pc # "idle") => att'[i].pc = "start"
          /\ (FailsNow(i) /\ att'[i].fail \in {"unsupported", "unavailable"}) =>
                /\ att[i].pc \in {"start", "await_availability"}
                /\ att'[i].pc = "returned"
                /\ status' = "disconnected"
                /\ att'[i].pushed = <<>> /\ att'[i].released = <<>>
                /\ att'[i].upc = "done"]_vars

C16_Witness ==
    /\ att[1].fail = "unavailable" /\ att[1].pc = "returned" /\ att[1].pushed = <<>>
    /\ att[2].pc = "await_take" /\ Len(att[2].pushed) = 4

\* C17 as stated: when every step has succeeded the release actions are taken
\* off the stack of the body as status becomes Connected, and the unwind of
\* that stack releases nothing.
C17_DetachedOnConnect ==
    \A i \in Attempts :
        att[i].est => (att[i].tasks = <<>> /\ att[i].released = <<>>)

\* C17 as amended: when every step has succeeded status becomes Connected and
\* the four release actions stay on the stack of the body, which waits; none
\* of them is invoked before a disconnect was requested or the run's
\* onDisconnected has fired, and the unwind of that stack invokes them all.
C17_StackHeldUntilTrigger ==
    [][\A i \in Attempts :
          /\ (att'[i].est /\ ~att[i].est) =>
                /\ status' = "connected"
                /\ att'[i].tasks = att[i].tasks
                /\ att'[i].released = <<>>
          /\ (att'[i].est /\ att'[i].pc \in {"await_take", "take_settled"}) =>
                /\ Len(att'[i].tasks) = 4
                /\ att'[i].released = <<>> /\ att'[i].upc = "none"
          /\ (att'[i].est /\ att'[i].pc = "take_settled") =>
                (att'[i].req \/ att'[i].ev # {})
          /\ (att'[i].est /\ Finished(i)') => Len(att'[i].released) = 4]_vars

C17_Witness ==
    /\ att[1].est /\ Finished(1) /\ Len(att[1].released) = 4
    /\ att[2].est /\ att[2].pc = "await_take" /\ Len(att[2].tasks) = 4
    /\ status = "connected"

\* A step that sets no field to a value other than its sentinel
NoFieldUpdate ==
    /\ battery' \in {battery, NaN}
    /\ deviceId' \in {deviceId, ""}
    /\ firmwareVersion' \in {firmwareVersion, ""}
    /\ hardwareVersion' \in {hardwareVersion, ""}
    /\ serialNumber' \in {serialNumber, ""}

ReleaseOf(res) ==
    CASE res = "discListener"   -> "rmDiscListener"
      [] res = "gattConnection" -> "gattDisconnect"
      [] res = "valueListener"  -> "rmValueListener"
      [] res = "notifications"  -> "stopNotifications"

\* The positions at which the body is suspended on an await
SuspensionPcs == {"await_availability", "await_device", "await_take"} \cup GattAwaits

\* C20: at every suspension point of the body the stack of the run holds, in
\* order of acquisition, the release action of each resource the run has
\* acquired (and so of each listener of the run that is registered at the
\* device), no release action is ever pushed but for an acquired resource, and
\* a GATT step that fails pushes nothing.
C20_AcquiredIsRegistered ==
    [][\A i \in Attempts :
          /\ att'[i].pushed = [k \in 1 .. Len(att'[i].acq) |-> ReleaseOf(att'[i].acq[k])]
          /\ att'[i].pc \in SuspensionPcs =>
                /\ att'[i].tasks = att'[i].pushed
                /\ i \in discListeners' => "rmDiscListener" \in Range(att'[i].tasks)
                /\ i \in valueListeners' => "rmValueListener" \in Range(att'[i].tasks)
          /\ (FailsNow(i) /\ att[i].pc \in GattAwaits) =>
                att'[i].pushed = att[i].pushed /\ att'[i].acq = att[i].acq]_vars

C20_Witness ==
    \E i, j \in Attempts :
        /\ att[i].pc = "await_take"
        /\ att[i].acq = <<"discListener", "gattConnection", "valueListener", "notifications">>
        /\ Len(att[i].tasks) = 4
        /\ att[j].fail = "connect" /\ att[j].acq = <<"discListener">>

\* A step in which onCharacteristicValueChanged changes the battery level
BatteryDelivered == battery' # battery /\ battery' # NaN

\* The run has begun its teardown: its stack is being unwound or was
BegunTeardown(i) == att[i].upc # "none"

\* C21: a value-change callback that is delivered after the run that
\* registered it has begun its teardown, or while status is neither Connecting
\* nor Connected, leaves battery and every other field of the slice unchanged.
C21_LateBatteryIsNoOp ==
    [][BatteryDelivered =>
          /\ status \in {"connecting", "connected"}
          /\ \A i \in valueListeners : ~BegunTeardown(i)]_vars

\* C22: the tasks popAll captured are consumed once: every call of the
\* returned procedure that invokes any of them invokes them in reverse order
\* of registration, a call after the first invokes none of them, and the
\* unwind of the stack itself invokes none of them.
C22_ConsumedOnce ==
    /\ \A r \in 1 .. Len(es.runs) :
          /\ IsPrefix(es.runs[r].rel, Reverse(es.dtReg))
          /\ r >= 2 => es.runs[r].rel = <<>>
    /\ es.popped => Range(es.released) \cap Range(es.dtReg) = {}

\* The promise of withExitStack has settled: func has returned or thrown and
\* the finally block is over, that is, the unwind it started and did not await
\* has reached its first await or has ended
Settled(a) ==
    /\ a.pc \in {"returned", "thrown"}
    /\ a.upc = "run" => a.released # <<>>

\* C23: the promise of withExitStack settles only after every release action
\* pushed has finished running, and a release action is invoked only when the
\* one before it has settled.
C23_SettlesAfterUnwind ==
    [][/\ Settled(es') => es'.upc = "done"
       /\ es'.released # es.released => es.upc = "run"]_vars

\* The four release actions of an established session, in order of registration
SessionReleases ==
    <<"rmDiscListener", "gattDisconnect", "rmValueListener", "stopNotifications">>

\* C24: whenever status is Connected exactly one run is in flight, it waits in
\* take for a disconnectBle, and its four release actions are on its stack,
\* none of them invoked.
C24_ConnectedHasSession ==
    status = "connected" =>
        \E i \in Attempts :
            /\ {j \in Attempts : InFlight(j)} = {i}
            /\ att[i].pc = "await_take"
            /\ att[i].tasks = SessionReleases
            /\ att[i].released = <<>>

====
